---- MODULE Spec2Model ----
(***************************************************************************)
(* Model of watermark_exif.py: date resolution from EXIF tags with a       *)
(* filesystem fallback, colour parsing, watermark positioning, outlined    *)
(* text drawing, font loading and the single-file / directory driver.      *)
(* Text is modelled as a sequence of one-character strings.                *)
(***************************************************************************)
EXTENDS Integers, Sequences, FiniteSets, TLC

VARIABLES
    platform,   \* the C library / locale the interpreter runs on
    file,       \* date resolution: the file whose date is being resolved
    exif_date,  \* date resolution: what get_exif_date returned
    date_text,  \* date resolution: the text process_single_file will draw
    date_source, \* date resolution: the operand of "or" that supplied date_text
    pos_args,   \* compute_position: its arguments
    pos_out,    \* compute_position: the origin it returned
    color_str,  \* parse_color_to_rgba: its argument
    rgba,       \* parse_color_to_rgba: the tuple it returned
    draw_args,  \* draw_text_on_image: its arguments (the font as the text's coverage mask)
    origin,     \* draw_text_on_image: x, y
    overlay,    \* draw_text_on_image: the pixels of the overlay image
    draws,      \* draw_text_on_image: the draw.text calls made so far, in order
    args,       \* main: the parsed command line (the options the model follows)
    fonts,      \* the font resources that can be loaded on this machine
    result,     \* process_single_file on one file: what it logged and wrote
    fs,         \* main: the file system, path -> node
    run,        \* main: input_path, mode, out_dir, items and the loop index
    log,        \* main: the [OK] / [ERR] lines of the current run, in order
    writes,     \* main: the files saved by the current run
    runs,       \* main: the number of runs started
    pc          \* control position of the operation under way

date_vars == <<platform, file, exif_date, date_text, date_source>>
pos_vars == <<pos_args, pos_out>>
color_vars == <<color_str, rgba>>
draw_vars == <<draw_args, origin, overlay, draws>>
proc_vars == <<args, fonts, result>>
main_vars == <<fs, run, log, writes, runs>>

vars == <<date_vars, pos_vars, color_vars, draw_vars, proc_vars, main_vars, pc>>

(***************************************************************************)
(* Text helpers                                                            *)
(***************************************************************************)
Digits == {"0", "1", "2", "3", "4", "5", "6", "7", "8", "9"}

DigitVal(c) ==
    CASE c = "0" -> 0 [] c = "1" -> 1 [] c = "2" -> 2 [] c = "3" -> 3
      [] c = "4" -> 4 [] c = "5" -> 5 [] c = "6" -> 6 [] c = "7" -> 7
      [] c = "8" -> 8 [] c = "9" -> 9

DigitChar(n) ==
    CASE n = 0 -> "0" [] n = 1 -> "1" [] n = 2 -> "2" [] n = 3 -> "3"
      [] n = 4 -> "4" [] n = 5 -> "5" [] n = 6 -> "6" [] n = 7 -> "7"
      [] n = 8 -> "8" [] n = 9 -> "9"

AllDigits(t) == \A i \in 1..Len(t) : t[i] \in Digits

RECURSIVE NumVal(_)
NumVal(t) ==
    IF t = <<>> THEN 0
    ELSE 10 * NumVal(SubSeq(t, 1, Len(t) - 1)) + DigitVal(t[Len(t)])

\* decimal digits of n >= 0, no padding
RECURSIVE Decimal(_)
Decimal(n) ==
    IF n < 10 THEN <<DigitChar(n)>>
    ELSE Decimal(n \div 10) \o <<DigitChar(n % 10)>>

RECURSIVE ZeroPad(_, _)
ZeroPad(t, width) == IF Len(t) >= width THEN t ELSE ZeroPad(<<"0">> \o t, width)

None == <<"None">>

(***************************************************************************)
(* datetime: calendar, strptime, strftime                                  *)
(***************************************************************************)
IsLeap(y) == (y % 4 = 0) /\ ((y % 100 # 0) \/ (y % 400 = 0))

DaysInMonth(y, m) ==
    IF m = 2 THEN (IF IsLeap(y) THEN 29 ELSE 28)
    ELSE IF m \in {4, 6, 9, 11} THEN 30 ELSE 31

\* the longest run of white space the parse model tries for the blank of the format
MaxWs == 2

\* lengths <<month, day, blank, hour, minute, second>> of the fields after the
\* four-digit year; every directive but %Y takes one or two characters
FieldSplits(s) ==
    {sp \in ({1, 2} \X {1, 2} \X (1..MaxWs) \X {1, 2} \X {1, 2} \X {1, 2}) :
        4 + 1 + sp[1] + 1 + sp[2] + sp[3] + sp[4] + 1 + sp[5] + 1 + sp[6] = Len(s)}

\* a numeric directive: its regular expression admits one or two digits whose
\* value lies in lo..hi (a lone "0" or "00" is no month or day)
NumField(t, lo, hi) == AllDigits(t) /\ NumVal(t) >= lo /\ NumVal(t) <= hi

\* %d also admits a blank followed by a digit 1-9
DayField(t) ==
    \/ NumField(t, 1, 31)
    \/ Len(t) = 2 /\ t[1] = " " /\ t[2] \in Digits \ {"0"}

DayVal(t) == IF t[1] = " " THEN DigitVal(t[2]) ELSE NumVal(t)

\* the pieces of s whose fields start at the positions pm .. pS
PiecesAt(s, pm, pd, pw, pH, pM, pS) ==
    [ Y  |-> SubSeq(s, 1, 4),
      s1 |-> s[5],
      m  |-> SubSeq(s, pm, pd - 2),
      s2 |-> s[pd - 1],
      d  |-> SubSeq(s, pd, pw - 1),
      ws |-> SubSeq(s, pw, pH - 1),
      H  |-> SubSeq(s, pH, pM - 2),
      c1 |-> s[pM - 1],
      M  |-> SubSeq(s, pM, pS - 2),
      c2 |-> s[pS - 1],
      S  |-> SubSeq(s, pS, Len(s)) ]

\* the pieces of s under the split sp
Pieces(s, sp) ==
    PiecesAt(s, 6, 7 + sp[1], 7 + sp[1] + sp[2], 7 + sp[1] + sp[2] + sp[3],
             8 + sp[1] + sp[2] + sp[3] + sp[4],
             9 + sp[1] + sp[2] + sp[3] + sp[4] + sp[5])

\* the pieces p match "%Y<sep>%m<sep>%d %H:%M:%S" and name a real date and time
PiecesMatch(p, sep) ==
    /\ AllDigits(p.Y)
    /\ p.s1 = sep /\ p.s2 = sep
    /\ NumField(p.m, 1, 12)
    /\ DayField(p.d)
    /\ \A i \in 1..Len(p.ws) : p.ws[i] = " "
    /\ NumField(p.H, 0, 23)
    /\ p.c1 = ":" /\ p.c2 = ":"
    /\ NumField(p.M, 0, 59)
    /\ NumField(p.S, 0, 61)
    \* datetime(...) refuses year 0, a day past the month's end, second 60/61
    /\ NumVal(p.Y) >= 1
    /\ DayVal(p.d) <= DaysInMonth(NumVal(p.Y), NumVal(p.m))
    /\ NumVal(p.S) <= 59

SplitMatches(s, sep, sp) == \E p \in {Pieces(s, sp)} : PiecesMatch(p, sep)

DateOfPieces(p) ==
    [ok |-> TRUE, year |-> NumVal(p.Y), month |-> NumVal(p.m), day |-> DayVal(p.d)]

\* the dates s parses to under the splits that match
ParsedDates(s, sep) ==
    {DateOfPieces(p) :
        p \in {q \in {Pieces(s, sp) : sp \in FieldSplits(s)} : PiecesMatch(q, sep)}}

\* the parse under a matching split; ValueError where there is none
ParsedUnder(dates) ==
    IF dates # {} THEN CHOOSE dt \in dates : TRUE
    ELSE [ok |-> FALSE, year |-> 0, month |-> 0, day |-> 0]

\* datetime.strptime(s, "%Y<sep>%m<sep>%d %H:%M:%S"): the date, or ok = FALSE
\* where the call raises ValueError
strptime(s, sep) == ParsedUnder(ParsedDates(s, sep))

\* dt.strftime("%Y-%m-%d"): %m and %d are zero padded everywhere; %Y is zero
\* padded to four digits only where the platform's C library does so
strftime(dt, pads_year) ==
    (IF pads_year THEN ZeroPad(Decimal(dt.year), 4) ELSE Decimal(dt.year))
        \o <<"-">> \o ZeroPad(Decimal(dt.month), 2)
        \o <<"-">> \o ZeroPad(Decimal(dt.day), 2)

\* s.replace(":", "-", n)
RECURSIVE replace_colons(_, _)
replace_colons(s, n) ==
    IF s = <<>> THEN <<>>
    ELSE IF Head(s) = ":" /\ n > 0
         THEN <<"-">> \o replace_colons(Tail(s), n - 1)
         ELSE <<Head(s)>> \o replace_colons(Tail(s), n)

\* datetime.fromtimestamp(ts): the local civil date of a POSIX time stamp
\* the civil date of day doy (counted from 1 March) of year yoe of a 400-year era
CivilOfYearDay(era, yoe, doy, mp) ==
    [ok |-> TRUE,
     year |-> yoe + era * 400 + (IF mp >= 10 THEN 1 ELSE 0),
     month |-> IF mp < 10 THEN mp + 3 ELSE mp - 9,
     day |-> doy - (153 * mp + 2) \div 5 + 1]

CivilOfEraYear(era, doe, yoe) ==
    CivilOfYearDay(era, yoe, doe - (365 * yoe + yoe \div 4 - yoe \div 100),
                   (5 * (doe - (365 * yoe + yoe \div 4 - yoe \div 100)) + 2) \div 153)

CivilOfEraDay(era, doe) ==
    CivilOfEraYear(era, doe,
                   (doe - doe \div 1460 + doe \div 36524 - doe \div 146096) \div 365)

\* the civil date of the day z days after 0000-03-01
CivilOfDay(z) == CivilOfEraDay(z \div 146097, z % 146097)

fromtimestamp(ts, utcoffset) == CivilOfDay(((ts + utcoffset) \div 86400) + 719468)

(***************************************************************************)
(* get_exif_date / fallback_file_date                                      *)
(***************************************************************************)
candidates == <<"DateTimeOriginal", "DateTimeDigitized", "DateTime">>

\* lines 39-49: the canonical parse, then the retry on s.replace(":", "-", 2);
\* None where both raise
first_parsed(dt, dt2, pads_year) ==
    IF dt.ok THEN strftime(dt, pads_year)
    ELSE IF dt2.ok THEN strftime(dt2, pads_year)
    ELSE None

parse_tag_value(s, pads_year) ==
    CHOOSE out \in {first_parsed(dt, dt2, pads_year) :
                        dt \in {strptime(s, ":")},
                        dt2 \in {strptime(s2, "-") : s2 \in {replace_colons(s, 2)}}} : TRUE

\* lines 30-52: the loop over candidates from index i on
\* a loop that gives up at the first value neither parse accepts
RECURSIVE scan_candidates_abort(_, _, _)
scan_candidates_abort(tags, i, pads_year) ==
    IF i > Len(candidates) THEN None
    ELSE LET value == tags[candidates[i]]
         IN IF value.present /\ value.text # <<>>
            THEN parse_tag_value(value.text, pads_year)
            ELSE scan_candidates_abort(tags, i + 1, pads_year)

RECURSIVE scan_candidates(_, _, _)
\* lines 40-50 for one candidate: a parsed value is returned, anything else continues
scan_value(value, tags, i, pads_year) ==
    IF value.present /\ value.text # <<>>
    THEN \* both except clauses "continue" to the next candidate
         CHOOSE out \in {IF r # None THEN r ELSE scan_candidates(tags, i + 1, pads_year) :
                             r \in {parse_tag_value(value.text, pads_year)}} : TRUE
    ELSE scan_candidates(tags, i + 1, pads_year)

scan_candidates(tags, i, pads_year) ==
    IF i > Len(candidates) THEN None
    ELSE CHOOSE out \in {scan_value(value, tags, i, pads_year) :
                             value \in {tags[candidates[i]]}} : TRUE

get_exif_date(f, pads_year) ==
    IF ~f.exif_ok THEN None ELSE scan_candidates(f.tags, 1, pads_year)

fallback_file_date(f, pl) ==
    CHOOSE out \in {strftime(dt, pl.pads_year) :
                        dt \in {fromtimestamp(f.mtime, pl.utcoffset)}} : TRUE

\* line 139: get_exif_date(path) or fallback_file_date(path)
resolve_date_always_mtime(found, f, pl) ==
    [text |-> fallback_file_date(f, pl), source |-> "mtime"]

resolve_date(found, f, pl) ==
    IF found # None /\ found # <<>>
    THEN [text |-> found, source |-> "exif"]
    ELSE [text |-> fallback_file_date(f, pl), source |-> "mtime"]

(***************************************************************************)
(* Sample inputs of date resolution                                        *)
(***************************************************************************)
V_canon   == <<"2","0","2","3",":","0","5",":","0","1"," ","1","2",":","0","0",":","0","0">>
V_hyphen  == <<"2","0","2","3","-","0","5","-","0","1"," ","1","2",":","0","0",":","0","0">>
V_later   == <<"2","0","2","1",":","1","2",":","3","1"," ","2","3",":","5","9",":","5","9">>
V_y999    == <<"0","9","9","9",":","0","1",":","0","1"," ","0","0",":","0","0",":","0","0">>
V_short   == <<"2","0","2","4",":","2",":","2","9"," ","1",":","2",":","3">>
V_feb30   == <<"2","0","2","3",":","0","2",":","3","0"," ","1","0",":","0","0",":","0","0">>
V_garbage == <<"x","x">>
V_dateonly == <<"2","0","2","3",":","0","5",":","0","1">>

Absent == [present |-> FALSE, text |-> <<>>]
Tag(t) == [present |-> TRUE, text |-> t]

TagSamples ==
    {Absent, Tag(<<>>), Tag(V_canon), Tag(V_hyphen), Tag(V_later), Tag(V_y999),
     Tag(V_short), Tag(V_feb30), Tag(V_garbage), Tag(V_dateonly)}

CandidateNames == {candidates[i] : i \in 1..Len(candidates)}

\* 2024-03-15 00:00:00 UTC, 2024-02-29 23:59:59 UTC, the epoch
MTimeSamples == {1710460800, 1709251199, 0}

Platforms == [pads_year : BOOLEAN, utcoffset : {0, 28800}]

IdleFile == [exif_ok |-> FALSE, tags |-> [c \in CandidateNames |-> Absent], mtime |-> 0]

(***************************************************************************)
(* Each specification below exercises one part of the program and leaves   *)
(* the state of the other parts at these idle values.                      *)
(***************************************************************************)
DateIdle ==
    /\ platform = [pads_year |-> TRUE, utcoffset |-> 0]
    /\ file = IdleFile
    /\ exif_date = None
    /\ date_text = None
    /\ date_source = "none"

PosIdle == pos_args = <<>> /\ pos_out = <<>>

ColorIdle == color_str = <<>> /\ rgba = <<>>

DrawIdle == draw_args = <<>> /\ origin = <<>> /\ overlay = <<>> /\ draws = <<>>

ProcIdle == args = <<>> /\ fonts = {} /\ result = <<>>

MainIdle == fs = <<>> /\ run = <<>> /\ log = <<>> /\ writes = <<>> /\ runs = 0

(***************************************************************************)
(* parse_color_to_rgba                                                     *)
(***************************************************************************)
LowerChar(c) ==
    CASE c = "A" -> "a" [] c = "B" -> "b" [] c = "C" -> "c" [] c = "D" -> "d"
      [] c = "E" -> "e" [] c = "F" -> "f" [] c = "W" -> "w" [] c = "R" -> "r"
      [] OTHER -> c

\* str.lower()
Lower(s) == [i \in 1..Len(s) |-> LowerChar(s[i])]

HexChars == Digits \cup {"a", "b", "c", "d", "e", "f"}

HexVal(c) ==
    CASE c \in Digits -> DigitVal(c)
      [] c = "a" -> 10 [] c = "b" -> 11 [] c = "c" -> 12
      [] c = "d" -> 13 [] c = "e" -> 14 [] c = "f" -> 15

\* ImageColor.colormap, the names the samples use
colormap(name) ==
    CASE name = <<"w","h","i","t","e">> -> <<"#","f","f","f","f","f","f">>
      [] name = <<"b","l","a","c","k">> -> <<"#","0","0","0","0","0","0">>
      [] name = <<"r","e","d">>         -> <<"#","f","f","0","0","0","0">>
      [] name = <<"b","l","u","e">>     -> <<"#","0","0","0","0","f","f">>
      [] OTHER -> <<>>

\* the "#..." notations of ImageColor.getrgb: #rgb, #rgba, #rrggbb, #rrggbbaa
getrgb_hex(c) ==
    IF Len(c) \in {4, 5, 7, 9} /\ c[1] = "#" /\ \A i \in 2..Len(c) : c[i] \in HexChars
    THEN [ok |-> TRUE,
          rgb |-> IF Len(c) \in {4, 5}
                  THEN [i \in 1..(Len(c) - 1) |-> 17 * HexVal(c[i + 1])]
                  ELSE [i \in 1..((Len(c) - 1) \div 2) |->
                            16 * HexVal(c[2 * i]) + HexVal(c[2 * i + 1])]]
    ELSE [ok |-> FALSE, rgb |-> <<>>]

\* ImageColor.getrgb: ok = FALSE where it raises ValueError
getrgb(color) ==
    LET c == Lower(color)
    IN IF colormap(c) # <<>> THEN getrgb_hex(colormap(c)) ELSE getrgb_hex(c)

parse_color_to_rgba(s) ==
    LET r == getrgb(s)
    IN IF r.ok /\ Len(r.rgb) = 3 THEN <<r.rgb[1], r.rgb[2], r.rgb[3], 255>>
       ELSE IF r.ok /\ Len(r.rgb) = 4 THEN r.rgb
       ELSE <<255, 255, 255, 255>>

HexPairs == {<<"F","F">>, <<"f","f">>, <<"0","0">>, <<"8","0">>, <<"0","a">>}

ColorNames ==
    {<<"w","h","i","t","e">>, <<"W","h","i","t","e">>, <<"b","l","a","c","k">>,
     <<"r","e","d">>, <<"R","E","D">>, <<"b","l","u","e">>}

ColorSamples ==
    {pre \o rr \o gg \o bb : pre \in {<<>>, <<"#">>}, rr \in HexPairs, gg \in HexPairs,
                             bb \in HexPairs}
        \cup ColorNames
        \cup {<<"#","F","0","0">>, <<"#","F","F","0","0","0","0","8","0">>,
              <<"n","o","c","o","l","o","r">>, <<>>}

ColorInit ==
    /\ DateIdle /\ PosIdle /\ DrawIdle /\ ProcIdle /\ MainIdle
    /\ color_str \in ColorSamples
    /\ rgba = <<>>
    /\ pc = "start"

ParseColorToRgba ==
    /\ pc = "start"
    /\ rgba' = parse_color_to_rgba(color_str)
    /\ pc' = "done"
    /\ UNCHANGED <<date_vars, pos_vars, draw_vars, proc_vars, main_vars, color_str>>

ColorNext == ParseColorToRgba

ColorSpec == ColorInit /\ [][ColorNext]_vars

\* the value a two-character hexadecimal sample denotes
HexPairValue(t) ==
    CASE t = <<"F","F">> -> 255 [] t = <<"f","f">> -> 255 [] t = <<"0","0">> -> 0
      [] t = <<"8","0">> -> 128 [] t = <<"0","a">> -> 10

\* the colour a sample denotes in the notations '#RRGGBB', 'RRGGBB' and by
\* name; <<>> for a text in none of them
DenotedColour(t) ==
    LET h == IF t # <<>> /\ t[1] = "#" THEN Tail(t) ELSE t
    IN IF Len(h) = 6 /\ \A i \in 1..3 : SubSeq(h, 2 * i - 1, 2 * i) \in HexPairs
       THEN <<HexPairValue(SubSeq(h, 1, 2)), HexPairValue(SubSeq(h, 3, 4)),
              HexPairValue(SubSeq(h, 5, 6)), 255>>
       ELSE CASE t \in {<<"w","h","i","t","e">>, <<"W","h","i","t","e">>} -> <<255, 255, 255, 255>>
              [] t = <<"b","l","a","c","k">> -> <<0, 0, 0, 255>>
              [] t \in {<<"r","e","d">>, <<"R","E","D">>} -> <<255, 0, 0, 255>>
              [] t = <<"b","l","u","e">> -> <<0, 0, 255, 255>>
              [] OTHER -> <<>>

\* C9: parse_color_to_rgba yields the same RGBA tuple, alpha 255, for
\* '#RRGGBB', bare 'RRGGBB' and the colour's name; a bare hexadecimal text
\* yields the colour it encodes.
C9_SameColourInEveryNotation ==
    (pc = "done" /\ DenotedColour(color_str) # <<>>) => rgba = DenotedColour(color_str)

(***************************************************************************)
(* compute_position                                                        *)
(***************************************************************************)
\* an origin that centres by truncating toward zero and forgets the margin below
compute_position_trunc(position_name, image_size, text_size, margin) ==
    LET W == image_size[1]
        H == image_size[2]
        w == text_size[1]
        h == text_size[2]
        half(n) == IF n >= 0 THEN n \div 2 ELSE -((-n) \div 2)
        pos == position_name
    IN CASE pos = "top-left" -> <<margin, margin>>
         [] pos = "top-right" -> <<W - w - margin, margin>>
         [] pos = "bottom-left" -> <<margin, H - h - margin>>
         [] pos = "bottom-right" -> <<W - w - margin, H - h - margin>>
         [] pos = "center" -> <<half(W - w), half(H - h)>>
         [] pos = "top-center" -> <<half(W - w), margin>>
         [] pos = "bottom-center" -> <<half(W - w), H - h - margin>>
         [] OTHER -> <<margin, margin>>

\* position_name.lower() on the names the samples use
LowerName(n) ==
    CASE n = "Bottom-Right" -> "bottom-right"
      [] n = "CENTER" -> "center"
      [] OTHER -> n

compute_position(position_name, image_size, text_size, margin) ==
    LET W == image_size[1]
        H == image_size[2]
        w == text_size[1]
        h == text_size[2]
        pos == LowerName(position_name)
    IN IF pos = "top-left" THEN <<margin, margin>>
       ELSE IF pos = "top-right" THEN <<W - w - margin, margin>>
       ELSE IF pos = "bottom-left" THEN <<margin, H - h - margin>>
       ELSE IF pos = "bottom-right" THEN <<W - w - margin, H - h - margin>>
       ELSE IF pos = "center" THEN <<(W - w) \div 2, (H - h) \div 2>>
       ELSE IF pos = "top-center" THEN <<(W - w) \div 2, margin>>
       ELSE IF pos = "bottom-center" THEN <<(W - w) \div 2, H - h - margin>>
       ELSE <<margin, margin>>

\* line 161: the choices of --position
PositionChoices ==
    {"top-left", "top-right", "bottom-left", "bottom-right", "center", "top-center",
     "bottom-center"}

\* the largest small image side and text side the samples enumerate
MaxDim == 3

ImageSizes == ((1..MaxDim) \X (1..MaxDim)) \cup {<<800, 600>>, <<1000, 800>>}
TextSizes == ((0..(MaxDim + 1)) \X (0..(MaxDim + 1))) \cup {<<120, 30>>}
Margins == {-1, 0, 1, 10}

PosInit ==
    /\ DateIdle /\ ColorIdle /\ DrawIdle /\ ProcIdle /\ MainIdle
    /\ pos_args \in [name : PositionChoices \cup {"Bottom-Right", "CENTER", "middle"},
                     image_size : ImageSizes, text_size : TextSizes, margin : Margins]
    /\ pos_out = <<>>
    /\ pc = "start"

ComputePosition ==
    /\ pc = "start"
    /\ pos_out' = compute_position(pos_args.name, pos_args.image_size,
                                   pos_args.text_size, pos_args.margin)
    /\ pc' = "done"
    /\ UNCHANGED <<date_vars, color_vars, draw_vars, proc_vars, main_vars, pos_args>>

PosNext == ComputePosition

PosSpec == PosInit /\ [][PosNext]_vars

\* x is the floor of n / 2
IsFloorHalf(x, n) == 2 * x <= n /\ n < 2 * x + 2

\* C5: for each of the seven position names the origin is the one the
\* position table gives, centring by floor division and with no clamping
\* (the origin is negative when the text exceeds the image); 800x600 with
\* text 120x30 and margin 10 gives bottom-right (670,560), center (340,285).
C5_PositionTable ==
    pc = "done" =>
        LET W == pos_args.image_size[1]
            H == pos_args.image_size[2]
            w == pos_args.text_size[1]
            h == pos_args.text_size[2]
            m == pos_args.margin
            n == pos_args.name
            x == pos_out[1]
            y == pos_out[2]
        IN /\ n = "top-left" => (x = m /\ y = m)
           /\ n = "top-right" => (x = W - w - m /\ y = m)
           /\ n = "bottom-left" => (x = m /\ y = H - h - m)
           /\ n = "bottom-right" => (x = W - w - m /\ y = H - h - m)
           /\ n = "center" => (IsFloorHalf(x, W - w) /\ IsFloorHalf(y, H - h))
           /\ n = "top-center" => (IsFloorHalf(x, W - w) /\ y = m)
           /\ n = "bottom-center" => (IsFloorHalf(x, W - w) /\ y = H - h - m)
           /\ (n \in {"top-right", "bottom-right"} /\ w + m > W) => x < 0
           /\ (n \in {"center", "top-center", "bottom-center"} /\ w > W) => x < 0
           /\ (pos_args.image_size = <<800, 600>> /\ pos_args.text_size = <<120, 30>>
                   /\ m = 10)
                 => /\ n = "bottom-right" => pos_out = <<670, 560>>
                    /\ n = "center" => pos_out = <<340, 285>>

C5_Witness ==
    /\ pc = "done"
    /\ pos_args.name = "center"
    /\ pos_args.image_size = <<2, 3>>
    /\ pos_args.text_size = <<3, 4>>
    /\ pos_out = <<-1, -1>>

(***************************************************************************)
(* draw_text_on_image                                                      *)
(* The font and text enter as the coverage mask draw.text rasterises: one  *)
(* row of 8-bit coverage values, 0 outside the glyph, 255 inside, values   *)
(* between on an anti-aliased edge.                                        *)
(***************************************************************************)
\* ImageDraw's 8-bit blend of one channel: (in1*(255-mask) + in2*mask) / 255, rounded
BLEND(mask, in1, in2) ==
    LET tmp == in1 * (255 - mask) + in2 * mask + 128
    IN ((tmp \div 256) + tmp) \div 256

\* one overlay pixel after a draw of coverage mask in colour ink: the alpha
\* channel is blended by the coverage; the colour channels are set outright
\* on a pixel that was fully transparent and blended otherwise
blend_pixel(out, mask, ink) ==
    LET channel_mask == IF mask # 0
                        THEN 255 - (255 - mask) * (1 - ((255 - out[4]) \div 255))
                        ELSE mask
    IN <<BLEND(channel_mask, out[1], ink[1]), BLEND(channel_mask, out[2], ink[2]),
         BLEND(channel_mask, out[3], ink[3]), BLEND(mask, out[4], ink[4])>>

\* draw.text(xy, text, font=font, fill=ink) on the overlay ov; the part of
\* the text that falls outside the image is clipped
draw_text(ov, xy, glyph, ink) ==
    [p \in DOMAIN ov |->
        IF p[2] = xy[2] /\ p[1] - xy[1] \in 0..(Len(glyph) - 1)
        THEN blend_pixel(ov[p], glyph[p[1] - xy[1] + 1], ink)
        ELSE ov[p]]

\* lines 111-114 with the centre offset drawn as well
OutlineOffsetsWithCentre ==
    <<<<-1, -1>>, <<-1, 0>>, <<-1, 1>>, <<0, -1>>, <<0, 0>>, <<0, 1>>, <<1, -1>>, <<1, 0>>>>

\* lines 111-114: dx outer, dy inner, (0, 0) left out
OutlineOffsets ==
    <<<<-1, -1>>, <<-1, 0>>, <<-1, 1>>, <<0, -1>>, <<0, 1>>, <<1, -1>>, <<1, 0>>, <<1, 1>>>>

outline_color == <<0, 0, 0, 200>>

\* line 100: Image.new("RGBA", base.size, (255, 255, 255, 0))
new_overlay(size) ==
    [p \in (0..(size[1] - 1)) \X (0..(size[2] - 1)) |-> <<255, 255, 255, 0>>]

\* the widest text mask the samples enumerate
MaxGlyphW == 2

CoverageSamples == {0, 1, 128, 255}

GlyphSamples == UNION {[1..n -> CoverageSamples] : n \in 1..MaxGlyphW}

DrawInit ==
    /\ DateIdle /\ PosIdle /\ ColorIdle /\ ProcIdle /\ MainIdle
    /\ draw_args \in [size : {<<4, 3>>}, glyph : GlyphSamples,
                      color_rgba : {<<255, 255, 255, 255>>, <<255, 0, 0, 128>>},
                      position : {"top-left", "center", "bottom-right"},
                      margin : {0, 1}, outline : BOOLEAN]
    /\ origin = <<>>
    /\ overlay = <<>>
    /\ draws = <<>>
    /\ pc = "start"

\* lines 99-106: the overlay, the text box and the origin
DrawBegin ==
    /\ pc = "start"
    /\ overlay' = new_overlay(draw_args.size)
    /\ origin' = compute_position(draw_args.position, draw_args.size,
                                  <<Len(draw_args.glyph), 1>>, draw_args.margin)
    /\ pc' = IF draw_args.outline THEN "outline" ELSE "text"
    /\ UNCHANGED <<date_vars, pos_vars, color_vars, proc_vars, main_vars, draw_args, draws>>

\* lines 111-115: one pass of the outline loop
DrawOutline ==
    /\ pc = "outline"
    /\ LET off == OutlineOffsets[Len(draws) + 1]
           xy  == <<origin[1] + off[1], origin[2] + off[2]>>
       IN /\ overlay' = draw_text(overlay, xy, draw_args.glyph, outline_color)
          /\ draws' = Append(draws, [xy |-> xy, fill |-> outline_color])
    /\ pc' = IF Len(draws) + 1 = Len(OutlineOffsets) THEN "text" ELSE "outline"
    /\ UNCHANGED <<date_vars, pos_vars, color_vars, proc_vars, main_vars, draw_args, origin>>

\* line 117, after which the overlay is composited and returned
DrawForeground ==
    /\ pc = "text"
    /\ overlay' = draw_text(overlay, origin, draw_args.glyph, draw_args.color_rgba)
    /\ draws' = Append(draws, [xy |-> origin, fill |-> draw_args.color_rgba])
    /\ pc' = "done"
    /\ UNCHANGED <<date_vars, pos_vars, color_vars, proc_vars, main_vars, draw_args, origin>>

DrawNext == DrawBegin \/ DrawOutline \/ DrawForeground

DrawSpec == DrawInit /\ [][DrawNext]_vars

\* the overlay after the outline draws are made in the order offs, then the
\* foreground draw
RECURSIVE OverlayAfter(_, _)
OverlayAfter(ov, offs) ==
    IF offs = <<>>
    THEN draw_text(ov, origin, draw_args.glyph, draw_args.color_rgba)
    ELSE OverlayAfter(draw_text(ov, <<origin[1] + Head(offs)[1], origin[2] + Head(offs)[2]>>,
                                draw_args.glyph, outline_color),
                      Tail(offs))

EightNeighbours == ({-1, 0, 1} \X {-1, 0, 1}) \ {<<0, 0>>}

CodeOrder ==
    <<<<-1, -1>>, <<-1, 0>>, <<-1, 1>>, <<0, -1>>, <<0, 1>>, <<1, -1>>, <<1, 0>>, <<1, 1>>>>

\* the orderings compared with the code's: any two draws exchanged, and the reverse
Reorderings ==
    {[k \in 1..8 |-> IF k = i THEN CodeOrder[j] ELSE IF k = j THEN CodeOrder[i]
                     ELSE CodeOrder[k]] : i \in 1..8, j \in 1..8}
        \cup {[k \in 1..8 |-> CodeOrder[9 - k]]}

DrawCallsAsCoded ==
    /\ draw_args.outline =>
          /\ Len(draws) = 9
          /\ \A k \in 1..8 : draws[k].fill = <<0, 0, 0, 200>>
          /\ \A off \in EightNeighbours :
                Cardinality({k \in 1..8 :
                    draws[k].xy = <<origin[1] + off[1], origin[2] + off[2]>>}) = 1
          /\ draws[9] = [xy |-> origin, fill |-> draw_args.color_rgba]
    /\ ~draw_args.outline =>
          draws = <<[xy |-> origin, fill |-> draw_args.color_rgba]>>

\* C10 as stated: eight outline draws in (0,0,0,200), one per neighbouring
\* offset, then the foreground draw at the origin, last; and the final
\* overlay is the same for every ordering of the eight outline draws.
C10_OrderNeverMatters ==
    pc = "done" =>
        /\ DrawCallsAsCoded
        /\ draw_args.outline =>
              \A offs \in Reorderings :
                  OverlayAfter(new_overlay(draw_args.size), offs) = overlay

BinaryCoverage == \A i \in 1..Len(draw_args.glyph) : draw_args.glyph[i] \in {0, 255}

\* C10 as amended: the draw calls are as stated; the final overlay is the
\* same for every ordering of the eight outline draws when the coverage of
\* the text is binary (0 or 255), which is when a later draw overwrites.
C10_OrderFreeForBinaryCoverage ==
    pc = "done" =>
        /\ DrawCallsAsCoded
        /\ (draw_args.outline /\ BinaryCoverage) =>
              \A offs \in Reorderings :
                  OverlayAfter(new_overlay(draw_args.size), offs) = overlay

C10_Witness ==
    /\ pc = "done"
    /\ draw_args.outline
    /\ draw_args.glyph = <<255, 255>>
    /\ draw_args.color_rgba = <<255, 255, 255, 255>>
    /\ origin = <<1, 1>>
    /\ Len(draws) = 9
    /\ overlay[<<1, 1>>] = <<255, 255, 255, 255>>
    /\ overlay[<<0, 0>>] = <<0, 0, 0, 200>>

(***************************************************************************)
(* DateSpec: process_single_file line 139 on every sample file             *)
(***************************************************************************)
DateInit ==
    /\ PosIdle /\ ColorIdle /\ DrawIdle /\ ProcIdle /\ MainIdle
    /\ platform \in Platforms
    /\ file \in [exif_ok : BOOLEAN, tags : [CandidateNames -> TagSamples], mtime : MTimeSamples]
    /\ exif_date = None
    /\ date_text = None
    /\ date_source = "none"
    /\ pc = "start"

GetExifDate ==
    /\ pc = "start"
    /\ exif_date' = get_exif_date(file, platform.pads_year)
    /\ pc' = "or"
    /\ UNCHANGED <<platform, file, date_text, date_source, pos_vars, color_vars, draw_vars, proc_vars, main_vars>>

OrFallback ==
    /\ pc = "or"
    /\ \E r \in {resolve_date(exif_date, file, platform)} :
          /\ date_text' = r.text
          /\ date_source' = r.source
    /\ pc' = "done"
    /\ UNCHANGED <<platform, file, exif_date, pos_vars, color_vars, draw_vars, proc_vars, main_vars>>

DateNext == GetExifDate \/ OrFallback

DateSpec == DateInit /\ [][DateNext]_vars

(***************************************************************************)
(* Properties of date resolution (checked under DateSpec)                  *)
(***************************************************************************)
\* what each sample tag text denotes: <<year, month, day>>, or <<>> where the
\* code's two parse attempts both reject it
SampleDate(t) ==
    CASE t = V_canon -> <<2023, 5, 1>>
      [] t = V_later -> <<2021, 12, 31>>
      [] t = V_y999  -> <<999, 1, 1>>
      [] t = V_short -> <<2024, 2, 29>>
      [] OTHER       -> <<>>

\* the numbers of a text "<year>-<month>-<day>"
DateNumbers(t) ==
    LET n == Len(t)
    IN <<NumVal(SubSeq(t, 1, n - 6)), NumVal(SubSeq(t, n - 4, n - 3)),
         NumVal(SubSeq(t, n - 1, n))>>

\* indices of the candidates whose value is present, non-empty and parsable
Usable(f) ==
    {i \in 1..Len(candidates) :
        /\ f.exif_ok
        /\ f.tags[candidates[i]].present
        /\ SampleDate(f.tags[candidates[i]].text) # <<>>}

FirstUsable(f) == CHOOSE i \in Usable(f) : \A j \in Usable(f) : i <= j

\* C1: get_exif_date returns the date of the lowest-index candidate whose
\* value parses; absent, empty and unparsable candidates are skipped, and
\* None comes back only when no candidate parses.
C1_FirstValidCandidateWins ==
    pc # "start" =>
        IF Usable(file) = {}
        THEN exif_date = None
        ELSE /\ exif_date # None
             /\ DateNumbers(exif_date)
                    = SampleDate(file.tags[candidates[FirstUsable(file)]].text)

C1_Witness ==
    /\ pc = "done"
    /\ file.exif_ok
    /\ file.tags["DateTimeOriginal"] = Tag(V_garbage)
    /\ file.tags["DateTimeDigitized"] = Tag(V_canon)
    /\ file.tags["DateTime"] = Tag(V_later)
    /\ exif_date = <<"2","0","2","3","-","0","5","-","0","1">>

ExpectedFileDate(ts, utcoffset) ==
    CASE ts = 1710460800 -> <<"2","0","2","4","-","0","3","-","1","5">>
      [] ts = 1709251199 /\ utcoffset = 0 -> <<"2","0","2","4","-","0","2","-","2","9">>
      [] ts = 1709251199 /\ utcoffset = 28800 -> <<"2","0","2","4","-","0","3","-","0","1">>
      [] ts = 0 -> <<"1","9","7","0","-","0","1","-","0","1">>

\* C3: the file's last-modified date is the text exactly when the EXIF block
\* is unreadable or no candidate parses, and then the text is that date as
\* YYYY-MM-DD; when some candidate parses the text comes from EXIF.
C3_MtimeOnlyWhenNoExifDate ==
    pc = "done" =>
        /\ (date_source = "mtime") <=> (Usable(file) = {})
        /\ (date_source = "mtime") =>
               date_text = ExpectedFileDate(file.mtime, platform.utcoffset)
        /\ (date_source = "exif") => date_text = exif_date

C3_Witness ==
    /\ pc = "done"
    /\ file.exif_ok
    /\ \A c \in CandidateNames : file.tags[c] = Tag(V_feb30)
    /\ file.mtime = 1710460800
    /\ date_source = "mtime"
    /\ date_text = <<"2","0","2","4","-","0","3","-","1","5">>

IsIsoDate(t) ==
    /\ Len(t) = 10
    /\ t[5] = "-" /\ t[8] = "-"
    /\ \A i \in {1, 2, 3, 4, 6, 7, 9, 10} : t[i] \in Digits
    /\ NumVal(SubSeq(t, 6, 7)) \in 1..12
    /\ NumVal(SubSeq(t, 9, 10)) >= 1
    /\ NumVal(SubSeq(t, 9, 10))
           <= DaysInMonth(NumVal(SubSeq(t, 1, 4)), NumVal(SubSeq(t, 6, 7)))

\* C4: every text date resolution produces has the exact shape YYYY-MM-DD
\* and names a real calendar date, for every parsable tag value.
C4_AlwaysIsoDate == pc = "done" => IsIsoDate(date_text)

(***************************************************************************)
(* Paths and names: a name is a text, a path the sequence of its names     *)
(* below the root (os.path.abspath has been applied)                       *)
(***************************************************************************)
basename(path) == IF path = <<>> THEN <<>> ELSE path[Len(path)]

dirname(path) == IF path = <<>> THEN <<>> ELSE SubSeq(path, 1, Len(path) - 1)

join(dir, name) == Append(dir, name)

\* os.path.splitext(name)[1]: from the last dot on, when some character
\* other than a dot stands before it
splitext_ext(name) ==
    LET dots == {i \in 1..Len(name) : name[i] = "."}
    IN IF dots = {} THEN <<>>
       ELSE LET last == CHOOSE i \in dots : \A j \in dots : j <= i
            IN IF \E k \in 1..(last - 1) : name[k] # "."
               THEN SubSeq(name, last, Len(name))
               ELSE <<>>

LowerPathChar(c) ==
    CASE c = "B" -> "b" [] c = "J" -> "j" [] c = "P" -> "p" [] c = "G" -> "g"
      [] OTHER -> c

\* str.lower() on the characters the sample names use
LowerExt(t) == [i \in 1..Len(t) |-> LowerPathChar(t[i])]

ALLOWED_EXTS ==
    {<<".","j","p","g">>, <<".","j","p","e","g">>, <<".","p","n","g">>,
     <<".","w","e","b","p">>, <<".","t","i","f","f">>, <<".","b","m","p">>}

(***************************************************************************)
(* ensure_font / process_single_file                                       *)
(***************************************************************************)
NoFont == "<None>"

\* a loader that raises as soon as the requested font cannot be loaded
ensure_font_strict(font_path, available) ==
    LET wanted == IF font_path # NoFont /\ font_path # "" THEN font_path ELSE "DejaVuSans.ttf"
    IN IF wanted \in available THEN [ok |-> TRUE, font |-> wanted]
       ELSE [ok |-> FALSE, font |-> "RuntimeError"]

\* ImageFont.truetype succeeds on the fonts in available; "load_default" in
\* available says ImageFont.load_default() succeeds
ensure_font(font_path, available) ==
    LET wanted == IF font_path # NoFont /\ font_path # "" THEN font_path ELSE "DejaVuSans.ttf"
    IN IF wanted \in available THEN [ok |-> TRUE, font |-> wanted]
       ELSE IF "load_default" \in available THEN [ok |-> TRUE, font |-> "load_default"]
       ELSE [ok |-> FALSE, font |-> "RuntimeError"]

NoOutput == [made_by |-> "nothing", text |-> <<>>, font |-> "", rgba |-> <<>>, mode |-> ""]

\* process_single_file(path, out_dir, args) on the file f; blocked says that
\* out_path cannot be written (it is a directory). The outcome: the line
\* printed, the path saved to and what was saved.
process_single_file(path, out_dir, a, f, available, pl, blocked) ==
    LET text     == resolve_date(get_exif_date(f, pl.pads_year), f, pl).text
        font     == ensure_font(a.font, available)
        color    == parse_color_to_rgba(a.color)
        ext      == LowerExt(splitext_ext(basename(path)))
        out_path == join(out_dir, basename(path))
        failed(why) == [status |-> "ERR", error |-> why, saved |-> FALSE,
                        path |-> path, out_path |-> out_path, content |-> NoOutput]
    IN IF ~f.decodable THEN failed("Image.open")
       ELSE IF ~font.ok THEN failed("font")
       \* Image.save: no format for the extension, or out_path not writable
       ELSE IF ext \notin ALLOWED_EXTS \/ blocked THEN failed("Image.save")
       ELSE [status |-> "OK", error |-> "", saved |-> TRUE, path |-> path,
             out_path |-> out_path,
             content |-> [made_by |-> "watermark", text |-> text, font |-> font.font,
                          rgba |-> color,
                          mode |-> IF ext \in {<<".","j","p","g">>, <<".","j","p","e","g">>}
                                   THEN "RGB" ELSE "RGBA"]]

N_a_jpg == <<"a",".","j","p","g">>
N_B_JPG == <<"B",".","J","P","G">>
N_c_txt == <<"c",".","t","x","t">>
N_d_png == <<"d",".","p","n","g">>
N_dotpng == <<".","p","n","g">>
N_p == <<"p">>
N_p_watermark == <<"p","_","w","a","t","e","r","m","a","r","k">>

FontArgs == {NoFont, "", "my.ttf"}

FontResources == {"my.ttf", "DejaVuSans.ttf", "load_default"}

ProcFiles ==
    [exif_ok : {TRUE}, decodable : BOOLEAN, mtime : {1710460800},
     tags : {[c \in CandidateNames |-> Absent],
             [c \in CandidateNames |-> IF c = "DateTime" THEN Tag(V_canon) ELSE Absent],
             [c \in CandidateNames |-> Tag(V_hyphen)]},
     path : {<<N_p, N_a_jpg>>, <<N_p, N_d_png>>, <<N_p, N_c_txt>>},
     blocked : BOOLEAN]

ProcInit ==
    /\ PosIdle /\ ColorIdle /\ DrawIdle /\ MainIdle
    /\ platform = [pads_year |-> TRUE, utcoffset |-> 0]
    /\ exif_date = None /\ date_text = None /\ date_source = "none"
    /\ file \in ProcFiles
    /\ args \in [font : FontArgs, color : {<<"#","F","F","F","F","F","F">>, <<"r","e","d">>}]
    /\ fonts \in SUBSET FontResources
    /\ result = <<>>
    /\ pc = "start"

ProcessSingleFile ==
    /\ pc = "start"
    /\ result' = process_single_file(file.path, join(dirname(file.path), N_p_watermark),
                                     args, file, fonts, platform, file.blocked)
    /\ pc' = "done"
    /\ UNCHANGED <<date_vars, pos_vars, color_vars, draw_vars, main_vars, args, fonts>>

ProcNext == ProcessSingleFile

ProcSpec == ProcInit /\ [][ProcNext]_vars

\* the font the command line asks for
RequestedFont == IF args.font \in {NoFont, ""} THEN "DejaVuSans.ttf" ELSE args.font

\* C6 as stated: when the requested font cannot be loaded the file ends in
\* an error and nothing is saved for it; the text is never drawn with
\* another font.
C6_FontFailureIsFatal ==
    (pc = "done" /\ RequestedFont \notin fonts) =>
        /\ result.status = "ERR"
        /\ ~result.saved

\* C6 as amended: when the requested font cannot be loaded, ensure_font
\* falls back to ImageFont.load_default() and the file is drawn with that
\* font and saved (if nothing else fails); only when load_default fails too
\* does the file end in the font error, with nothing saved.
C6_DefaultFontSubstituted ==
    (pc = "done" /\ RequestedFont \notin fonts) =>
        IF "load_default" \in fonts
        THEN /\ result.error # "font"
             /\ result.saved => result.content.font = "load_default"
             /\ (file.decodable /\ ~file.blocked /\ file.path # <<N_p, N_c_txt>>)
                    => (result.status = "OK" /\ result.saved)
        ELSE /\ result.status = "ERR"
             /\ ~result.saved
             /\ file.decodable => result.error = "font"

C6_Witness ==
    /\ pc = "done"
    /\ args.font = "my.ttf"
    /\ fonts = {"DejaVuSans.ttf", "load_default"}
    /\ result.status = "OK"
    /\ result.saved
    /\ result.content.font = "load_default"

(***************************************************************************)
(* main: the file system, the directory loop and the single-file branch    *)
(***************************************************************************)
\* code point of the characters the sample names use
Ord(c) ==
    CASE c = "." -> 46 [] c = "B" -> 66 [] c = "G" -> 71 [] c = "J" -> 74
      [] c = "P" -> 80 [] c = "_" -> 95 [] c = "a" -> 97 [] c = "c" -> 99
      [] c = "d" -> 100 [] c = "e" -> 101 [] c = "g" -> 103 [] c = "j" -> 106
      [] c = "k" -> 107 [] c = "m" -> 109 [] c = "n" -> 110 [] c = "o" -> 111
      [] c = "p" -> 112 [] c = "r" -> 114 [] c = "t" -> 116 [] c = "w" -> 119
      [] c = "x" -> 120

\* s < t as Python compares str
RECURSIVE TextLess(_, _)
TextLess(s, t) ==
    IF t = <<>> THEN FALSE
    ELSE IF s = <<>> THEN TRUE
    ELSE IF Head(s) # Head(t) THEN Ord(Head(s)) < Ord(Head(t))
    ELSE TextLess(Tail(s), Tail(t))

\* sorted(os.listdir(...))
RECURSIVE sorted(_)
sorted(names) ==
    IF names = {} THEN <<>>
    ELSE LET first == CHOOSE n \in names : \A o \in names \ {n} : TextLess(n, o)
         IN <<first>> \o sorted(names \ {first})

listdir(tree, dir) ==
    {basename(q) : q \in {q \in DOMAIN tree : q # <<>> /\ dirname(q) = dir}}

isdir(tree, q) == q \in DOMAIN tree /\ tree[q].kind = "dir"

isfile(tree, q) == q \in DOMAIN tree /\ tree[q].kind = "file"

Store(tree, q, node) == [x \in DOMAIN tree \cup {q} |-> IF x = q THEN node ELSE tree[x]]

DirNode == [kind |-> "dir", content |-> [NoOutput EXCEPT !.made_by = "mkdir"]]

FileNode(made_by) == [kind |-> "file", content |-> [NoOutput EXCEPT !.made_by = made_by]]

T_watermark == <<"_","w","a","t","e","r","m","a","r","k">>
T_root == <<"r","o","o","t">>

\* an output directory that is the input directory itself
out_dir_in_place(dir) == dir

\* lines 174-176 and 189-191: <dir>/<name of dir or "root">_watermark
out_dir_of(dir) ==
    LET base_name == IF basename(dir) # <<>> THEN basename(dir) ELSE T_root
    IN join(dir, base_name \o T_watermark)

\* what reading the file at a node gives: a camera image carries EXIF, a
\* watermarked copy is an image without EXIF, anything else does not decode
FileOf(node) ==
    [exif_ok |-> TRUE,
     decodable |-> node.content.made_by \in {"camera", "watermark"},
     mtime |-> IF node.content.made_by = "camera" THEN 1709251199 ELSE 1710460800,
     tags |-> [c \in CandidateNames |->
                  IF c = "DateTimeOriginal" /\ node.content.made_by = "camera"
                  THEN Tag(V_later) ELSE Absent]]

\* process_single_file on an existing file, and its effect on the file system
Processed(tree, full, out_dir) ==
    process_single_file(full, out_dir, args, FileOf(tree[full]), fonts, platform,
                        isdir(tree, join(out_dir, basename(full))))

Saved(tree, r) ==
    IF r.saved THEN Store(tree, r.out_path, [kind |-> "file", content |-> r.content])
    ELSE tree

Logged(r) == [path |-> r.path, status |-> r.status]

Written(tree, r) == [src |-> r.path, dst |-> r.out_path, before |-> tree[r.path]]

\* the most entries the input directory starts with, and the most runs of the tool
MaxEntries == 2
MaxRuns == 2

NameUniverse == {N_a_jpg, N_B_JPG, N_c_txt, N_d_png, N_dotpng, N_p_watermark}

EntryKinds == {"camera", "garbage", "dir"}

InitialTrees ==
    {[q \in {<<>>, <<N_p>>} \cup {<<N_p, n>> : n \in DOMAIN e} |->
         IF Len(q) < 2 THEN DirNode
         ELSE IF e[q[2]] = "dir" THEN DirNode ELSE FileNode(e[q[2]])] :
     e \in UNION {[ns -> EntryKinds] :
                     ns \in {x \in SUBSET NameUniverse : Cardinality(x) <= MaxEntries}}}

IdleRun == [input_path |-> <<>>, mode |-> "none", out_dir |-> <<>>, items |-> <<>>, idx |-> 0]

Init ==
    /\ PosIdle /\ ColorIdle /\ DrawIdle /\ DateIdle
    /\ args = [font |-> NoFont, color |-> <<"#","F","F","F","F","F","F">>]
    /\ fonts \in {{"DejaVuSans.ttf", "load_default"}, {}}
    /\ result = <<>>
    /\ fs \in InitialTrees
    /\ run = IdleRun
    /\ log = <<>>
    /\ writes = <<>>
    /\ runs = 0
    /\ pc = "idle"

\* lines 167-179 and 186-192: from the command line to the loop or the one file
StartRun(input) ==
    /\ pc \in {"idle", "done", "exit", "crashed"}
    /\ runs < MaxRuns
    /\ runs' = runs + 1
    /\ log' = <<>>
    /\ writes' = <<>>
    /\ IF input \notin DOMAIN fs
       THEN \* line 168: the path does not exist, sys.exit(1)
            /\ pc' = "exit"
            /\ run' = [IdleRun EXCEPT !.input_path = input]
            /\ fs' = fs
       ELSE LET mode == IF isdir(fs, input) THEN "dir" ELSE "file"
                out_dir == IF mode = "dir" THEN out_dir_of(input)
                           ELSE out_dir_of(dirname(input))
            IN IF isfile(fs, out_dir)
               THEN \* os.makedirs raises FileExistsError, which nothing catches
                    /\ pc' = "crashed"
                    /\ run' = [IdleRun EXCEPT !.input_path = input, !.mode = mode,
                                              !.out_dir = out_dir]
                    /\ fs' = fs
               ELSE /\ fs' = Store(fs, out_dir, DirNode)
                    /\ pc' = IF mode = "dir" THEN "loop" ELSE "single"
                    /\ run' = [input_path |-> input, mode |-> mode, out_dir |-> out_dir,
                               items |-> IF mode = "dir" THEN sorted(listdir(fs', input))
                                         ELSE <<>>,
                               idx |-> 1]
    /\ UNCHANGED <<date_vars, pos_vars, color_vars, draw_vars, proc_vars>>

\* the loop that stops at the first file that fails
LoopStepAbortOnError ==
    /\ pc = "loop"
    /\ run.idx <= Len(run.items)
    /\ LET name == run.items[run.idx]
           full == join(run.input_path, name)
           ext  == LowerExt(splitext_ext(name))
       IN IF isfile(fs, full) /\ ext \in ALLOWED_EXTS
          THEN \E r \in {Processed(fs, full, run.out_dir)} :
                  /\ fs' = Saved(fs, r)
                  /\ log' = Append(log, Logged(r))
                  /\ writes' = IF r.saved THEN Append(writes, Written(fs, r)) ELSE writes
                  /\ run' = [run EXCEPT !.idx = IF r.status = "ERR" THEN Len(run.items) + 1
                                                 ELSE run.idx + 1]
          ELSE /\ UNCHANGED <<fs, log, writes>>
               /\ run' = [run EXCEPT !.idx = run.idx + 1]
    /\ UNCHANGED <<date_vars, pos_vars, color_vars, draw_vars, proc_vars, runs, pc>>

\* lines 180-184: one pass of the loop over items
LoopStep ==
    /\ pc = "loop"
    /\ run.idx <= Len(run.items)
    /\ LET name == run.items[run.idx]
           full == join(run.input_path, name)
           ext  == LowerExt(splitext_ext(name))
       IN IF isfile(fs, full) /\ ext \in ALLOWED_EXTS
          THEN \E r \in {Processed(fs, full, run.out_dir)} :
                  /\ fs' = Saved(fs, r)
                  /\ log' = Append(log, Logged(r))
                  /\ writes' = IF r.saved THEN Append(writes, Written(fs, r)) ELSE writes
          ELSE UNCHANGED <<fs, log, writes>>
    /\ run' = [run EXCEPT !.idx = run.idx + 1]
    /\ UNCHANGED <<date_vars, pos_vars, color_vars, draw_vars, proc_vars, runs, pc>>

\* line 185: the loop is over, completion is reported
LoopEnd ==
    /\ pc = "loop"
    /\ run.idx > Len(run.items)
    /\ pc' = "done"
    /\ UNCHANGED <<date_vars, pos_vars, color_vars, draw_vars, proc_vars, main_vars>>

\* lines 193-194: the single file
ProcessSingle ==
    /\ pc = "single"
    /\ \E r \in {Processed(fs, run.input_path, run.out_dir)} :
          /\ fs' = Saved(fs, r)
          /\ log' = Append(log, Logged(r))
          /\ writes' = IF r.saved THEN Append(writes, Written(fs, r)) ELSE writes
    /\ pc' = "done"
    /\ UNCHANGED <<date_vars, pos_vars, color_vars, draw_vars, proc_vars, run, runs>>

N_nope == <<"n","o","p","e">>

Next ==
    \/ \E input \in DOMAIN fs \cup {<<N_nope>>} : StartRun(input)
    \/ LoopStep
    \/ LoopEnd
    \/ ProcessSingle

Spec == Init /\ [][Next]_vars

\* a started run is a sequential program: it keeps taking its next step
FairSpec == Spec /\ WF_vars(LoopStep) /\ WF_vars(LoopEnd) /\ WF_vars(ProcessSingle)

(***************************************************************************)
(* Properties of main (C7 under FairSpec, C8 under Spec)                   *)
(***************************************************************************)
\* the sample names whose lower-cased extension is in ALLOWED_EXTS, in the
\* order Python sorts them ("B" < "a" < "d")
EligibleInOrder == <<N_B_JPG, N_a_jpg, N_d_png>>

IsRegularFileIn(dir, n) == isfile(fs, join(dir, n))

ExpectedLogPaths(dir) ==
    LET present == SelectSeq(EligibleInOrder, LAMBDA n : IsRegularFileIn(dir, n))
    IN [i \in 1..Len(present) |-> join(dir, present[i])]

DirectoryRunComplete ==
    (pc = "done" /\ run.mode = "dir") =>
        /\ [i \in 1..Len(log) |-> log[i].path] = ExpectedLogPaths(run.input_path)
        /\ \A i \in 1..Len(log) : log[i].status \in {"OK", "ERR"}

\* C7: a directory run processes every regular file with an allowed
\* extension exactly once, in sorted name order, whatever files fail (each
\* failure is one [ERR] line), and once the loop is entered the run reaches
\* its end and reports completion.
C7_EveryFileProcessedOnce ==
    /\ []DirectoryRunComplete
    /\ (pc = "loop") ~> (pc = "done")

C7_Witness ==
    /\ pc = "done"
    /\ run.mode = "dir"
    /\ run.input_path = <<N_p>>
    /\ log = <<[path |-> <<N_p, N_B_JPG>>, status |-> "ERR"],
               [path |-> <<N_p, N_a_jpg>>, status |-> "OK"]>>

IsUnder(q, dir) == Len(q) > Len(dir) /\ SubSeq(q, 1, Len(dir)) = dir

\* <dir>/<dirname>_watermark/<basename> for the input src
ExpectedOutPath(src) ==
    LET d == SubSeq(src, 1, Len(src) - 1)
        dn == IF d = <<>> THEN T_root ELSE d[Len(d)]
    IN d \o <<dn \o T_watermark, src[Len(src)]>>

\* C8: in every step, the only path created or changed is the output
\* directory (created) or <dir>/<dirname>_watermark/<basename> of the input
\* being processed; that path differs from the input, the input keeps its
\* content, and no input of a run lies in the run's output directory.
C8_OriginalsNeverWritten ==
    [][ /\ \A q \in DOMAIN fs' :
              (q \notin DOMAIN fs \/ fs'[q] # fs[q]) =>
                  \/ (q \notin DOMAIN fs /\ q = run'.out_dir /\ fs'[q].kind = "dir")
                  \/ /\ Len(writes') = Len(writes) + 1
                     /\ LET w == writes'[Len(writes')]
                        IN /\ w.dst = q
                           /\ q = ExpectedOutPath(w.src)
                           /\ q # w.src
                           /\ isfile(fs, w.src)
                           /\ fs'[w.src] = fs[w.src]
                           /\ run.mode = "dir" => dirname(w.src) = run.input_path
                           /\ run.mode = "file" => w.src = run.input_path
        /\ DOMAIN fs \subseteq DOMAIN fs'
        /\ Len(log') = Len(log) + 1 => ~IsUnder(log'[Len(log')].path, run.out_dir)
      ]_vars

C8_Witness ==
    /\ pc = "done"
    /\ runs = 2
    /\ run.mode = "dir"
    /\ run.input_path = <<N_p, N_p_watermark>>
    /\ Len(writes) = 1
    /\ writes[1].src = <<N_p, N_p_watermark, N_a_jpg>>
    /\ writes[1].dst = <<N_p, N_p_watermark, N_p_watermark \o T_watermark, N_a_jpg>>
    /\ fs[<<N_p, N_a_jpg>>].content.made_by = "camera"
    /\ fs[<<N_p, N_p_watermark, N_a_jpg>>].content.made_by = "watermark"

====
